---- MODULE Spec2Model ----
(***************************************************************************)
(* Model of the event-window / merge / summary-statistics core of the     *)
(* productive-liquidity-thesis-bitcoin repository.                         *)
(*                                                                         *)
(* The program is a single-threaded batch of function calls.  The state   *)
(* is the current call frame: which function is running (op), what it was *)
(* called with (args) and what it gave back (ret: a returned value and the *)
(* exception raised, "none" when it returned).  caller_df is the table the *)
(* caller passed to the call, as the caller holds it once the call is     *)
(* over ("none" for a call that takes no table).                           *)
(*                                                                         *)
(* Representation                                                          *)
(*   - an ISO date string "YYYY-MM-DD" is the triple <<y, m, d>>;          *)
(*   - a datetime / pandas Timestamp is its proleptic Gregorian ordinal    *)
(*     (an integer, 0001-01-01 = 1), as CPython's datetime keeps it;       *)
(*   - a float is the record [nan |-> FALSE, v |-> n] for the number n (in *)
(*     the unit stated where it is used) and [nan |-> TRUE, v |-> 0] for   *)
(*     NaN, the missing marker.                                            *)
(***************************************************************************)
EXTENDS Integers, Sequences, FiniteSets, TLC

VARIABLES op, args, ret, caller_df

vars == <<op, args, ret, caller_df>>

\* ------------------------------------------------------------------ bounds

\* Largest offset (days_before, days_after) tried.
MaxDays == 3

\* Negative offsets tried go down to -NegDays.
NegDays == 2

\* Means given to percent_change range over -MaxVal..MaxVal (and NaN).
MaxVal == 32

\* Shares given to pp_change: the MaxMilli + 1 thousandths from 0 up and the
\* MaxMilli + 1 thousandths from 1 down.
MaxMilli == 30

\* Days on which the metric series given to the merge can hold a value.
MaxMergeDays == 3

\* Longest series given to summary_stats and compare_periods.
MaxSeriesLen == 2

\* Block heights are tried in the halving eras 0..MaxEra.
MaxEra == 5

\* ---------------------------------------------------------------- calendar

NaN == [nan |-> TRUE, v |-> 0]

Num(n) == [nan |-> FALSE, v |-> n]

IsLeap(y) == (y % 4 = 0) /\ ((y % 100 # 0) \/ (y % 400 = 0))

DaysInMonth(y, m) ==
    IF m = 2 THEN (IF IsLeap(y) THEN 29 ELSE 28)
    ELSE IF m \in {4, 6, 9, 11} THEN 30 ELSE 31

\* Days in the months of a common year that precede month m (m in 1..13).
DaysBeforeMonthCommon(m) ==
    <<0, 31, 59, 90, 120, 151, 181, 212, 243, 273, 304, 334, 365>>[m]

DaysBeforeMonth(y, m) ==
    DaysBeforeMonthCommon(m) + (IF m > 2 /\ IsLeap(y) THEN 1 ELSE 0)

DaysBeforeYear(y) ==
    (y - 1) * 365 + ((y - 1) \div 4) - ((y - 1) \div 100) + ((y - 1) \div 400)

\* datetime.strptime(s, "%Y-%m-%d") accepts s iff it names a calendar date.
IsCalendarDate(s) ==
    /\ s[1] \in 1..9999
    /\ s[2] \in 1..12
    /\ s[3] \in 1..DaysInMonth(s[1], s[2])

\* year, month, day -> ordinal (datetime's _ymd2ord).
ToOrdinal(s) == DaysBeforeYear(s[1]) + DaysBeforeMonth(s[1], s[2]) + s[3]

\* ordinal -> year, month, day (datetime's _ord2ymd), as strftime prints it.
FromOrdinal(n) ==
    LET n0   == n - 1
        n400 == n0 \div 146097
        r400 == n0 % 146097
        n100 == r400 \div 36524
        r100 == r400 % 36524
        n4   == r100 \div 1461
        r4   == r100 % 1461
        n1   == r4 \div 365
        r1   == r4 % 365
        year == n400 * 400 + 1 + n100 * 100 + n4 * 4 + n1
    IN  IF n1 = 4 \/ n100 = 4 THEN <<year - 1, 12, 31>>
        ELSE
          LET leap == (n1 = 3) /\ ((n4 # 24) \/ (n100 = 3))
              m0   == (r1 + 50) \div 32
              p0   == DaysBeforeMonthCommon(m0)
                        + (IF m0 > 2 /\ leap THEN 1 ELSE 0)
              month == IF p0 > r1 THEN m0 - 1 ELSE m0
              prec  == DaysBeforeMonthCommon(month)
                        + (IF month > 2 /\ leap THEN 1 ELSE 0)
          IN  <<year, month, r1 - prec + 1>>

\* ------------------------------------------------------------ date_windows

Returned(v) == [value |-> v, raised |-> "none"]
Raised(e)   == [value |-> "none", raised |-> e]

\* parse_date falling back to the first day of the year on a string that is
\* no date.
parse_date_fallback(date_str) ==
    IF IsCalendarDate(date_str) THEN Returned(ToOrdinal(date_str))
    ELSE Returned(ToOrdinal(<<date_str[1], 1, 1>>))

\* parse_date: strptime raises ValueError on anything that is no date.
parse_date(date_str) ==
    IF IsCalendarDate(date_str) THEN Returned(ToOrdinal(date_str))
    ELSE Raised("ValueError")

\* build_event_window with the pre range ending on the anchor day itself.
build_event_window_pre_end_anchor(anchor_date, days_before, days_after) ==
    LET parsed == parse_date(anchor_date) IN
    IF parsed.raised # "none" THEN parsed
    ELSE
      LET anchor == parsed.value
      IN  Returned([pre    |-> <<FromOrdinal(anchor - days_before),
                                 FromOrdinal(anchor)>>,
                    crisis |-> <<FromOrdinal(anchor),
                                 FromOrdinal(anchor + days_after)>>])

build_event_window(anchor_date, days_before, days_after) ==
    LET parsed == parse_date(anchor_date) IN
    IF parsed.raised # "none" THEN parsed
    ELSE
      LET anchor       == parsed.value
          pre_start    == anchor - days_before
          pre_end      == anchor - 1
          crisis_start == anchor
          crisis_end   == anchor + days_after
      IN  Returned([pre    |-> <<FromOrdinal(pre_start), FromOrdinal(pre_end)>>,
                    crisis |-> <<FromOrdinal(crisis_start),
                                 FromOrdinal(crisis_end)>>])

\* label_period with date <= anchor: the anchor day falls to "pre".
label_period_le(date, anchor_date) ==
    LET anchor == parse_date(anchor_date) IN
    IF anchor.raised # "none" THEN anchor
    ELSE Returned(IF date <= anchor.value THEN "pre" ELSE "crisis")

\* label_period giving the anchor day to "pre" once some call has run
\* before it: a result that depends on what an earlier run left behind.
label_period_after_first_run(date, anchor_date) ==
    LET anchor == parse_date(anchor_date) IN
    IF anchor.raised # "none" THEN anchor
    ELSE IF op = "idle"
      THEN Returned(IF date < anchor.value THEN "pre" ELSE "crisis")
    ELSE Returned(IF date <= anchor.value THEN "pre" ELSE "crisis")

\* pd.Timestamp(anchor_date) parses the string; date < anchor compares instants.
label_period(date, anchor_date) ==
    LET anchor == parse_date(anchor_date) IN
    IF anchor.raised # "none" THEN anchor
    ELSE Returned(IF date < anchor.value THEN "pre" ELSE "crisis")

\* The table has a column of this name.
HasColumn(df, name) == \E i \in DOMAIN df.columns : df.columns[i] = name

\* The date column as datetime64: pd.to_datetime over a column of date
\* strings (every string of the tables modelled names a calendar date).
to_datetime(df) ==
    [df EXCEPT !.dtype = "datetime64",
               !.rows = [i \in DOMAIN df.rows |->
                           [df.rows[i] EXCEPT !.date = ToOrdinal(df.rows[i].date)]]]

\* slice_dataframe_by_window with the two bounds put in order first.
slice_dataframe_by_window_sorted(df, start_date, end_date) ==
    IF ~HasColumn(df, "date") THEN Raised("KeyError") ELSE
    LET dfc  == IF df.dtype # "datetime64" THEN to_datetime(df) ELSE df
        a    == ToOrdinal(start_date)
        b    == ToOrdinal(end_date)
        lo   == IF a <= b THEN a ELSE b
        hi   == IF a <= b THEN b ELSE a
        mask(row) == (row.date >= lo) /\ (row.date <= hi)
    IN  Returned([dfc EXCEPT !.rows = SelectSeq(dfc.rows, mask)])

\* slice_dataframe_by_window followed by dropna().
slice_dataframe_by_window_dropna(df, start_date, end_date) ==
    IF ~HasColumn(df, "date") THEN Raised("KeyError") ELSE
    LET dfc  == IF df.dtype # "datetime64" THEN to_datetime(df) ELSE df
        lo   == ToOrdinal(start_date)
        hi   == ToOrdinal(end_date)
        mask(row) == (row.date >= lo) /\ (row.date <= hi) /\ ~row.x.nan
    IN  Returned([dfc EXCEPT !.rows = SelectSeq(dfc.rows, mask)])

\* slice_dataframe_by_window with the end bound exclusive.
slice_dataframe_by_window_end_open(df, start_date, end_date) ==
    IF ~HasColumn(df, "date") THEN Raised("KeyError") ELSE
    LET dfc  == IF df.dtype # "datetime64" THEN to_datetime(df) ELSE df
        lo   == ToOrdinal(start_date)
        hi   == ToOrdinal(end_date)
        mask(row) == (row.date >= lo) /\ (row.date < hi)
    IN  Returned([dfc EXCEPT !.rows = SelectSeq(dfc.rows, mask)])

\* df[date_column] raises KeyError on a table without the column.  A date
\* bound given as a string is compared as the instant it names.
slice_dataframe_by_window(df, start_date, end_date) ==
    IF ~HasColumn(df, "date") THEN Raised("KeyError") ELSE
    LET dfc  == IF df.dtype # "datetime64" THEN to_datetime(df) ELSE df
        lo   == ToOrdinal(start_date)
        hi   == ToOrdinal(end_date)
        mask(row) == (row.date >= lo) /\ (row.date <= hi)
    IN  Returned([dfc EXCEPT !.rows = SelectSeq(dfc.rows, mask)])

\* df['period'] = df[date].apply(label_period): one call per row, so a bad
\* anchor string raises only when the table has a row.
add_period_labels(df, anchor_date) ==
    IF ~HasColumn(df, "date") THEN Raised("KeyError") ELSE
    LET dfc == IF df.dtype # "datetime64" THEN to_datetime(df) ELSE df
        lab(i) == label_period(dfc.rows[i].date, anchor_date)
    IN  IF \E i \in DOMAIN dfc.rows : lab(i).raised # "none"
        THEN Raised("ValueError")
        ELSE Returned([dtype   |-> dfc.dtype,
                       columns |-> Append(dfc.columns, "period"),
                       rows    |-> [i \in DOMAIN dfc.rows |->
                                      [date   |-> dfc.rows[i].date,
                                       x      |-> dfc.rows[i].x,
                                       period |-> lab(i).value]]])

\* slice_dataframe_by_window converting the date column of the table it was
\* passed, with no copy taken first.
slice_dataframe_by_window_caller_in_place(df, start_date, end_date) ==
    IF HasColumn(df, "date") /\ df.dtype # "datetime64" THEN to_datetime(df)
    ELSE df

\* The table passed to slice_dataframe_by_window, after the call: the
\* conversion is done on df.copy(), to which the local name is rebound, and
\* df[mask].copy() is a new table.
slice_dataframe_by_window_caller(df, start_date, end_date) == df

\* add_period_labels writing the period column into the table it was passed.
add_period_labels_caller_in_place(df, anchor_date) ==
    IF add_period_labels(df, anchor_date).raised = "none"
      THEN add_period_labels(df, anchor_date).value
    ELSE df

\* The table passed to add_period_labels, after the call: the first
\* statement rebinds the local name to df.copy().
add_period_labels_caller(df, anchor_date) == df

\* ------------------------------------------------------------- math_stats

\* Numbers are integers in the unit of their column; a result rounded to 2
\* decimals is an integer number of hundredths.

Abs(n) == IF n < 0 THEN 0 - n ELSE n

\* round(n / d, 0) for d > 0: the nearest integer.  Where n / d lies exactly
\* half way, a binary float holds a neighbour of the decimal tie and round()
\* goes to either side, so both neighbours are outcomes.
RoundDiv(n, d) ==
    LET q == n \div d
        r == n % d
    IN  IF 2 * r < d THEN {q}
        ELSE IF 2 * r > d THEN {q + 1}
        ELSE {q, q + 1}

\* percent_change without the guard on value_old == 0: the division raises.
percent_change_unguarded(value_new, value_old) ==
    IF value_new.nan \/ value_old.nan THEN {Returned(NaN)}
    ELSE IF value_old.v = 0 THEN {Raised("ZeroDivisionError")}
    ELSE LET num == (value_new.v - value_old.v) * 100 * 100
         IN  { Returned(Num(r)) :
                 r \in IF value_old.v > 0 THEN RoundDiv(num, value_old.v)
                       ELSE RoundDiv(0 - num, 0 - value_old.v) }

\* percent_change(value_new, value_old), round_decimals = 2: the set of
\* results (hundredths of a percent, or NaN).  NaN == 0 is False and NaN
\* propagates through the arithmetic and round().
percent_change(value_new, value_old) ==
    IF ~value_old.nan /\ value_old.v = 0 THEN {Returned(NaN)}
    ELSE IF value_new.nan \/ value_old.nan THEN {Returned(NaN)}
    ELSE LET num == (value_new.v - value_old.v) * 100 * 100
         IN  { Returned(Num(r)) :
                 r \in IF value_old.v > 0 THEN RoundDiv(num, value_old.v)
                       ELSE RoundDiv(0 - num, 0 - value_old.v) }

\* pp_change cutting the difference to 2 decimals instead of rounding it.
pp_change_truncated(share_new, share_old) ==
    LET pp == share_new.v - share_old.v
    IN  { Returned(Num(pp \div 10)) }

\* pp_change(share_new, share_old), round_decimals = 2, on shares given in
\* thousandths: the set of results in hundredths.
pp_change(share_new, share_old) ==
    LET pp == share_new.v - share_old.v
    IN  { Returned(Num(r)) : r \in RoundDiv(pp, 10) }

\* An exact quotient num / den (den > 0) where the code holds an unrounded
\* float.
Frac(n, d) == [nan |-> FALSE, num |-> n, den |-> d]

NonMissing(series) == SelectSeq(series, LAMBDA x : ~x.nan)

RECURSIVE SumSeq(_)
SumSeq(s) == IF s = <<>> THEN 0 ELSE s[1].v + SumSeq(Tail(s))

\* Series.mean(): NaN is skipped; NaN when no value is left.
mean(series) ==
    LET s == NonMissing(series)
    IN  IF Len(s) = 0 THEN NaN ELSE Frac(SumSeq(s), Len(s))

\* Series.min() / Series.max(): NaN is skipped; NaN when no value is left.
min(series) ==
    LET s == NonMissing(series)
    IN  IF Len(s) = 0 THEN NaN
        ELSE CHOOSE x \in {s[i] : i \in DOMAIN s} :
               \A i \in DOMAIN s : x.v <= s[i].v

max(series) ==
    LET s == NonMissing(series)
    IN  IF Len(s) = 0 THEN NaN
        ELSE CHOOSE x \in {s[i] : i \in DOMAIN s} :
               \A i \in DOMAIN s : x.v >= s[i].v

\* summary_stats: 'count' is len(series), every entry of the series.  The
\* median and std entries are left out: nothing here reads them.
summary_stats(series) ==
    Returned([mean  |-> mean(series),
              min   |-> min(series),
              max   |-> max(series),
              count |-> Len(series)])

\* round(m, 4) of a mean of values given in units of 10^-5: the set of
\* results in units of 10^-4; round(nan, 4) is nan.
Round4(m) ==
    IF m.nan THEN {NaN} ELSE { Num(r) : r \in RoundDiv(m.num, m.den * 10) }

RECURSIVE Gcd(_, _)
Gcd(a, b) == IF b = 0 THEN a ELSE Gcd(b, a % b)

\* percent_change on two unrounded means: both are brought to the common
\* denominator and divided by their common factor (positive, so zero and
\* sign are kept; the quotient new / old is the same).
percent_change_of_means(new_mean, old_mean) ==
    IF new_mean.nan \/ old_mean.nan
    THEN percent_change(IF new_mean.nan THEN NaN ELSE Num(new_mean.num),
                        IF old_mean.nan THEN NaN ELSE Num(old_mean.num))
    ELSE LET n == new_mean.num * old_mean.den
             o == old_mean.num * new_mean.den
             g == Gcd(Abs(n), Abs(o))
         IN  IF g = 0 THEN percent_change(Num(0), Num(0))
             ELSE percent_change(Num(n \div g), Num(o \div g))

\* compare_periods taking the mean as sum / len with missing values as 0.
compare_periods_fillna(pre_series, crisis_series, metric_name) ==
    LET zmean(s) == Frac(SumSeq(NonMissing(s)), IF Len(s) = 0 THEN 1 ELSE Len(s))
        pre_mean    == zmean(pre_series)
        crisis_mean == zmean(crisis_series)
    IN  { Returned([metric         |-> metric_name,
                    pre_mean       |-> pm,
                    crisis_mean    |-> cm,
                    percent_change |-> pc.value]) :
            pm \in Round4(pre_mean), cm \in Round4(crisis_mean),
            pc \in percent_change_of_means(crisis_mean, pre_mean) }

\* compare_periods with the arguments of percent_change swapped.
compare_periods_swapped(pre_series, crisis_series, metric_name) ==
    LET pre_mean    == mean(pre_series)
        crisis_mean == mean(crisis_series)
    IN  { Returned([metric         |-> metric_name,
                    pre_mean       |-> pm,
                    crisis_mean    |-> cm,
                    percent_change |-> pc.value]) :
            pm \in Round4(pre_mean), cm \in Round4(crisis_mean),
            pc \in percent_change_of_means(pre_mean, crisis_mean) }

\* compare_periods: the percent change is taken from the unrounded means;
\* the means are stored rounded to 4 decimals.
compare_periods(pre_series, crisis_series, metric_name) ==
    LET pre_mean    == mean(pre_series)
        crisis_mean == mean(crisis_series)
    IN  { Returned([metric         |-> metric_name,
                    pre_mean       |-> pm,
                    crisis_mean    |-> cm,
                    percent_change |-> pc.value]) :
            pm \in Round4(pre_mean), cm \in Round4(crisis_mean),
            pc \in percent_change_of_means(crisis_mean, pre_mean) }

\* ------------------------------------------------- fees_and_fee_to_subsidy

\* Blocks between two halvings.
HalvingInterval == 210000

\* initial_subsidy, in BTC.
InitialSubsidy == 50

\* Blocks per day assumed when a height is estimated from a date.
BlocksPerDay == 144

FracAdd(a, b) == Frac(a.num * b.den + b.num * a.den, a.den * b.den)

\* a / b for b # 0, the denominator kept positive.
FracDiv(a, b) ==
    IF b.num > 0 THEN Frac(a.num * b.den, a.den * b.num)
    ELSE Frac(0 - a.num * b.den, 0 - a.den * b.num)

\* block_subsidy with the halving one block late.
block_subsidy_late(height) ==
    LET halvings == (height - 1) \div HalvingInterval
    IN  IF halvings >= 0 THEN Returned(Frac(InitialSubsidy, 2 ^ halvings))
        ELSE Returned(Frac(InitialSubsidy * 2 ^ (0 - halvings), 1))

\* block_subsidy: 50.0 / (2 ** (height // 210000)); for a negative height
\* the exponent is negative and 2 ** halvings is a float below 1.
block_subsidy(height) ==
    LET halvings == height \div HalvingInterval
    IN  IF halvings >= 0 THEN Returned(Frac(InitialSubsidy, 2 ^ halvings))
        ELSE Returned(Frac(InitialSubsidy * 2 ^ (0 - halvings), 1))

\* compute_fee_to_subsidy as fees / subsidy, the reward left out below.
compute_fee_to_subsidy_over_subsidy(fees_btc, subsidy_btc) ==
    IF fees_btc.nan \/ subsidy_btc.nan THEN Returned(NaN)
    ELSE IF FracAdd(fees_btc, subsidy_btc).num = 0 THEN Returned(Frac(0, 1))
    ELSE IF subsidy_btc.num = 0 THEN Raised("ZeroDivisionError")
    ELSE Returned(FracDiv(fees_btc, subsidy_btc))

\* compute_fee_to_subsidy: NaN + x is NaN, NaN == 0 is False, so a missing
\* operand gives NaN.
compute_fee_to_subsidy(fees_btc, subsidy_btc) ==
    IF fees_btc.nan \/ subsidy_btc.nan THEN Returned(NaN)
    ELSE LET total_reward == FracAdd(fees_btc, subsidy_btc)
         IN  IF total_reward.num = 0 THEN Returned(Frac(0, 1))
             ELSE Returned(FracDiv(fees_btc, total_reward))

\* 2009-01-03, the date heights are estimated from.
GenesisOrdinal == ToOrdinal(<<2009, 1, 3>>)

\* ((date - Timestamp('2009-01-03')).dt.days * 144).astype(int)
approx_height(date) == (date - GenesisOrdinal) * BlocksPerDay

\* compute_fee_to_subsidy_ratio on the table load_csv gives (date parsed to
\* datetime64): subsidy_btc from the height column when one is named and
\* present, else from the estimated height (which is kept as a column), then
\* fee_to_subsidy row by row; the table saved is the value.
compute_fee_to_subsidy_ratio(df, height_column) ==
    LET exact == height_column # "None" /\
                 \E i \in DOMAIN df.columns : df.columns[i] = height_column
        sub(row) == IF exact THEN block_subsidy(row.height).value
                    ELSE block_subsidy(approx_height(row.date)).value
        out(row) ==
          [date               |-> row.date,
           height             |-> row.height,
           fees_per_block_btc |-> row.fees_per_block_btc,
           approx_height      |-> IF exact THEN -1
                                  ELSE approx_height(row.date),
           subsidy_btc        |-> sub(row),
           fee_to_subsidy     |->
             compute_fee_to_subsidy(row.fees_per_block_btc, sub(row)).value]
    IN  Returned([dtype   |-> df.dtype,
                  columns |-> df.columns \o
                                (IF exact THEN <<>> ELSE <<"approx_height">>)
                                \o <<"subsidy_btc", "fee_to_subsidy">>,
                  rows    |-> [i \in DOMAIN df.rows |-> out(df.rows[i])]])

\* ---------------------------------------------------------------- node_rpc

\* The initial subsidy and the halving interval as node_rpc writes them.
NodeInitialSubsidy == 50

NodeHalvingInterval == 210000

\* get_block_subsidy with no halving after the fourth, as the ranges listed
\* in its docstring end.
get_block_subsidy_four_halvings(height) ==
    LET halvings == height \div NodeHalvingInterval
    IN  IF halvings >= 4 THEN Returned(Frac(NodeInitialSubsidy, 2 ^ 4))
        ELSE IF halvings >= 0
          THEN Returned(Frac(NodeInitialSubsidy, 2 ^ halvings))
        ELSE Returned(Frac(NodeInitialSubsidy * 2 ^ (0 - halvings), 1))

\* get_block_subsidy: subsidy = 50.0; halvings = height // 210000;
\* subsidy / (2 ** halvings).
get_block_subsidy(height) ==
    LET subsidy  == NodeInitialSubsidy
        halvings == height \div NodeHalvingInterval
    IN  IF halvings >= 0 THEN Returned(Frac(subsidy, 2 ^ halvings))
        ELSE Returned(Frac(subsidy * 2 ^ (0 - halvings), 1))

\* ------------------------------------------------------ simple_fee_metrics

\* get_subsidy_on_date with the first boundary compared with <=.
get_subsidy_on_date_le(date_str) ==
    LET date == ToOrdinal(date_str)
    IN  IF date <= ToOrdinal(<<2012, 11, 28>>) THEN Returned(Frac(50, 1))
        ELSE IF date < ToOrdinal(<<2016, 7, 9>>) THEN Returned(Frac(25, 1))
        ELSE IF date < ToOrdinal(<<2020, 5, 11>>) THEN Returned(Frac(25, 2))
        ELSE IF date < ToOrdinal(<<2024, 4, 19>>) THEN Returned(Frac(25, 4))
        ELSE Returned(Frac(25, 8))

\* get_subsidy_on_date: 50.0, 25.0, 12.5, 6.25, 3.125 by hardcoded dates.
get_subsidy_on_date(date_str) ==
    LET date == ToOrdinal(date_str)
    IN  IF date < ToOrdinal(<<2012, 11, 28>>) THEN Returned(Frac(50, 1))
        ELSE IF date < ToOrdinal(<<2016, 7, 9>>) THEN Returned(Frac(25, 1))
        ELSE IF date < ToOrdinal(<<2020, 5, 11>>) THEN Returned(Frac(25, 2))
        ELSE IF date < ToOrdinal(<<2024, 4, 19>>) THEN Returned(Frac(25, 4))
        ELSE Returned(Frac(25, 8))

\* ----------------------------------------------------- build_event_dataset

\* pd.DataFrame(): no columns, no rows.
EmptyDataFrame == [dtype |-> "object", columns |-> <<>>, rows |-> <<>>]

\* merge_metrics_on_date raising on an empty map instead of returning.
merge_metrics_on_date_raising(metrics_dict) ==
    IF DOMAIN metrics_dict = {} THEN Raised("ValueError")
    ELSE Returned(EmptyDataFrame)

\* merge_metrics_on_date: the merge itself is commented out in the source;
\* both paths print a message and return an empty DataFrame.
merge_metrics_on_date(metrics_dict) ==
    IF DOMAIN metrics_dict = {} THEN Returned(EmptyDataFrame)
    ELSE Returned(EmptyDataFrame)

\* A path, and the None returned where a path is expected.
Path(dir, file) == [dir |-> dir, file |-> file]

None == [dir |-> "None", file |-> "None"]

\* processed_dir / f"event_{event_name}.csv"
EventCsv(event_name) == <<"event", event_name>>

\* load_all_metrics: the loading is commented out; the dict stays empty.
load_all_metrics(processed_dir) == Returned(<<>>)

\* build_event_dataset: the body is commented out; prints and returns None.
build_event_dataset(event_name, anchor_date, days_before, days_after, merged_metrics, output_dir) ==
    Returned(None)

\* The loop of build_all_event_datasets over config['events'].items(): the
\* pairs <<event_name, path>> entered into event_paths, in order.
RECURSIVE build_event_paths(_, _, _, _)
build_event_paths(events, windows, merged, output_dir) ==
    IF events = <<>> THEN <<>>
    ELSE LET built == build_event_dataset(Head(events).name,
                                          Head(events).anchor,
                                          windows.days_before,
                                          windows.days_after,
                                          merged, output_dir)
             rest  == build_event_paths(Tail(events), windows, merged,
                                        output_dir)
         IN  IF built.raised # "none" THEN rest
             ELSE IF built.value # None
               THEN << <<Head(events).name, built.value>> >> \o rest
             ELSE rest

\* build_all_event_datasets: returns {} when no metrics were loaded or the
\* merged table is empty, before any event is looked at.
build_all_event_datasets(config, processed_dir) ==
    LET metrics == load_all_metrics(processed_dir).value
        merged  == merge_metrics_on_date(metrics).value
    IN  IF DOMAIN metrics = {} THEN Returned(<<>>)
        ELSE IF merged.columns = <<>> \/ merged.rows = <<>>
          THEN Returned(<<>>)
        ELSE Returned(build_event_paths(config.events, config.windows,
                                        merged, processed_dir))

\* ------------------------------------------------- compute_summary_tables

\* compute_event_summary_stats: the computation is commented out; prints
\* and returns an empty DataFrame.
compute_event_summary_stats(event_csv, event_name) == Returned(EmptyDataFrame)

\* DataFrame.empty
Empty(df) == df.columns = <<>> \/ df.rows = <<>>

\* The loop of compute_all_event_summaries: the non-empty summaries of the
\* configured events whose CSV exists, in configuration order.
RECURSIVE all_summaries(_, _)
all_summaries(events, processed_dir) ==
    IF events = <<>> THEN <<>>
    ELSE LET event_name == Head(events).name
             event_csv  == EventCsv(event_name)
             rest       == all_summaries(Tail(events), processed_dir)
         IN  IF event_csv \notin processed_dir.files THEN rest
             ELSE LET summary ==
                        compute_event_summary_stats(event_csv, event_name).value
                  IN  IF ~Empty(summary) THEN <<summary>> \o rest ELSE rest

\* pd.concat(frames, ignore_index=True) of frames with the same columns.
RECURSIVE concat(_)
concat(frames) ==
    IF Len(frames) = 1 THEN Head(frames)
    ELSE [dtype   |-> Head(frames).dtype,
          columns |-> Head(frames).columns,
          rows    |-> Head(frames).rows \o concat(Tail(frames)).rows]

\* compute_all_event_summaries: the combined table, or an empty DataFrame
\* when no summary was collected.
compute_all_event_summaries(config, processed_dir) ==
    LET summaries == all_summaries(config.events, processed_dir)
    IN  IF summaries # <<>> THEN Returned(concat(summaries))
        ELSE Returned(EmptyDataFrame)

\* ------------------------------------------------------------------ config

\* A loaded configuration (its top-level sections), and the None that CONFIG
\* is set to when there is none.
ConfigDict(keys) == [kind |-> "dict", keys |-> keys]

ConfigNone == [kind |-> "None", keys |-> {}]

\* load_config: FileNotFoundError when the settings file is absent; the
\* yaml.YAMLError of safe_load on malformed YAML; safe_load gives None for an
\* empty file, on which "key not in config" is a TypeError; ValueError when
\* one of data, events, windows is missing.
load_config(settings) ==
    IF settings.state = "absent" THEN Raised("FileNotFoundError")
    ELSE IF settings.state = "malformed" THEN Raised("YAMLError")
    ELSE IF settings.state = "empty" THEN Raised("TypeError")
    ELSE IF ~({"data", "events", "windows"} \subseteq settings.keys)
      THEN Raised("ValueError")
    ELSE Returned(ConfigDict(settings.keys))

\* The import with every exception of load_config caught.
import_config_catch_all(settings) ==
    IF load_config(settings).raised # "none" THEN Returned(ConfigNone)
    ELSE load_config(settings)

\* Importing the config module: CONFIG = load_config(), with None in its
\* place on FileNotFoundError only; any other exception leaves the import.
import_config(settings) ==
    IF load_config(settings).raised = "FileNotFoundError"
      THEN Returned(ConfigNone)
    ELSE load_config(settings)

\* ------------------------------------------------- the stages, in a row

\* A caller cutting a table to the window of an anchor and labelling the
\* rows: build_event_window, slice_dataframe_by_window on
\* [pre.start, crisis.end], add_period_labels; an exception of a stage ends
\* the run.
slice_and_label(df, anchor_date, days_before, days_after) ==
    LET window == build_event_window(anchor_date, days_before, days_after) IN
    IF window.raised # "none" THEN window
    ELSE LET sliced == slice_dataframe_by_window(df, window.value.pre[1],
                                                 window.value.crisis[2])
         IN  IF sliced.raised # "none" THEN sliced
             ELSE add_period_labels(sliced.value, anchor_date)

\* The same after merge_metrics_on_date on a map of metric tables.
merge_slice_label(metrics_dict, anchor_date, days_before, days_after) ==
    LET merged == merge_metrics_on_date(metrics_dict) IN
    IF merged.raised # "none" THEN merged
    ELSE slice_and_label(merged.value, anchor_date, days_before, days_after)

\* --------------------------------------------------------- 03_make_figures

\* An optional command-line integer: argparse leaves None when the option is
\* not given.
Given(v) == [given |-> TRUE, v |-> v]

NotGiven == [given |-> FALSE, v |-> 0]

\* Python's "x or y" on an optional integer x: y when x is None or 0.
Or(x, y) == IF x.given /\ x.v # 0 THEN x.v ELSE y

\* generate_event_figures: builds the window, then returns [] because
\* load_all_metrics gives no metrics; the window built is kept beside the
\* paths.
generate_event_figures(event_name, anchor_date, days_before, days_after) ==
    LET window == build_event_window(anchor_date, days_before, days_after)
    IN  IF window.raised # "none" THEN window
        ELSE Returned([window |-> window.value, figure_paths |-> <<>>])

\* main of 03_make_figures.py: exits with status 1 when the settings file is
\* absent or the event is unknown; otherwise calls generate_event_figures
\* for each event to plot, an exception of one event being printed and
\* skipped.  The value is the windows built and the figure paths collected.
make_figures(cli, settings, config) ==
    IF load_config(settings).raised = "FileNotFoundError"
      THEN Raised("SystemExit")
    ELSE IF load_config(settings).raised # "none" THEN load_config(settings)
    ELSE
      LET days_before == Or(cli.days_before, config.windows.days_before)
          days_after  == Or(cli.days_after, config.windows.days_after)
          events_to_plot ==
            IF cli.event = "all" THEN config.events
            ELSE SelectSeq(config.events, LAMBDA e : e.name = cli.event)
          result(e) == generate_event_figures(e.name, e.anchor, days_before,
                                              days_after)
          done == SelectSeq(events_to_plot,
                            LAMBDA e : result(e).raised = "none")
      IN  IF events_to_plot = <<>> /\ cli.event # "all"
            THEN Raised("SystemExit")
          ELSE Returned([windows |-> [i \in DOMAIN done |->
                                        result(done[i]).value.window],
                         figure_paths |-> <<>>])

\* ------------------------------------------------------- 02_compute_metrics

\* A computation called by a metric group ends by returning a path, by
\* returning None, or by raising; ran gives what it did for each of them.

\* compute_fee_metrics: False without blockchain_com_fees_per_block_btc.csv;
\* then the fee-to-subsidy ratio, and the fee rates when the fees and blocks
\* files are there (the blockchair blocks file, or else the blockchain_com
\* one); any exception gives False.
compute_fee_metrics(raw_dir, ran) ==
    LET blocks_csv == IF "blockchair_blocks_per_day" \in raw_dir
                        THEN "blockchair_blocks_per_day"
                      ELSE "blockchain_com_blocks_per_day"
    IN  IF "blockchain_com_fees_per_block_btc" \notin raw_dir THEN FALSE
        ELSE IF ran.fee_to_subsidy # "path" THEN FALSE
        ELSE IF "blockchain_com_fees_btc_day" \in raw_dir /\ blocks_csv \in raw_dir
          THEN ran.fee_rate = "path"
        ELSE TRUE

\* compute_dormancy_metrics: False without blockchain_com_bdd.csv, when the
\* computation raises, or when it returns no path.
compute_dormancy_metrics(raw_dir, ran) ==
    IF "blockchain_com_bdd" \notin raw_dir THEN FALSE
    ELSE ran.dormancy = "path"

\* compute_activity_metrics: the same with blockchain_com_tx_per_day.csv.
compute_activity_metrics(raw_dir, ran) ==
    IF "blockchain_com_tx_per_day" \notin raw_dir THEN FALSE
    ELSE ran.activity = "path"

\* The groups in the order main looks at them.
MetricGroups == <<"fees", "dormancy", "activity">>

\* One group of main: computed and recorded when it is to be computed.  The
\* state is the groups attempted so far and the results recorded so far.
compute_group(group, metrics_to_compute, raw_dir, ran, sofar) ==
    IF \E i \in DOMAIN metrics_to_compute : metrics_to_compute[i] = group
      THEN LET result ==
                 IF group = "fees" THEN compute_fee_metrics(raw_dir, ran)
                 ELSE IF group = "dormancy"
                   THEN compute_dormancy_metrics(raw_dir, ran)
                 ELSE compute_activity_metrics(raw_dir, ran)
           IN  [attempted |-> Append(sofar.attempted, group),
                results   |-> [g \in DOMAIN sofar.results \cup {group} |->
                                 IF g = group THEN result
                                 ELSE sofar.results[g]]]
    ELSE sofar

\* main stopping at the first group that fails.
compute_metrics_stop_at_failure(cli, settings, raw_dir, ran) ==
    LET metrics_to_compute ==
          IF \E i \in DOMAIN cli.metrics : cli.metrics[i] = "all"
            THEN MetricGroups ELSE cli.metrics
        start == [attempted |-> <<>>, results |-> <<>>]
        g1 == compute_group("fees", metrics_to_compute, raw_dir, ran, start)
        ok(st) == \A g \in DOMAIN st.results : st.results[g]
        g2 == IF ok(g1)
                THEN compute_group("dormancy", metrics_to_compute, raw_dir,
                                   ran, g1)
              ELSE g1
        g3 == IF ok(g2)
                THEN compute_group("activity", metrics_to_compute, raw_dir,
                                   ran, g2)
              ELSE g2
    IN  Returned([attempted     |-> g3.attempted,
                  results       |-> g3.results,
                  success_count |-> Cardinality({ g \in DOMAIN g3.results :
                                                    g3.results[g] }),
                  total_count   |-> Cardinality(DOMAIN g3.results)])

\* main of 02_compute_metrics.py: exits with status 1 when the settings file
\* is absent; computes fees, dormancy, activity, each if requested, and
\* counts the results that are True.
compute_metrics(cli, settings, raw_dir, ran) ==
    IF load_config(settings).raised = "FileNotFoundError"
      THEN Raised("SystemExit")
    ELSE IF load_config(settings).raised # "none" THEN load_config(settings)
    ELSE
      LET metrics_to_compute ==
            IF \E i \in DOMAIN cli.metrics : cli.metrics[i] = "all"
              THEN MetricGroups ELSE cli.metrics
          start == [attempted |-> <<>>, results |-> <<>>]
          g1 == compute_group("fees", metrics_to_compute, raw_dir, ran, start)
          g2 == compute_group("dormancy", metrics_to_compute, raw_dir, ran, g1)
          g3 == compute_group("activity", metrics_to_compute, raw_dir, ran, g2)
      IN  Returned([attempted     |-> g3.attempted,
                    results       |-> g3.results,
                    success_count |-> Cardinality({ g \in DOMAIN g3.results :
                                                      g3.results[g] }),
                    total_count   |-> Cardinality(DOMAIN g3.results)])

\* ------------------------------------------------------ plot_event_windows

\* What a plot writes beside "Change:": a number of tenths of a percent,
\* "inf" with its sign in v, or "nan"; or the count of data points.
Annotation(kind, v) == [kind |-> kind, v |-> v]

\* f'{pct_change:+.1f}' of ((crisis_mean - pre_mean) / pre_mean) * 100 on two
\* means as Series.mean() gives them (numpy floats: a division by 0.0 gives
\* inf with the sign of the numerator, nan for 0 / 0, and raises nothing).
\* The set of annotations, a decimal tie going to either side.
pct_change_annotation(pre_mean, crisis_mean) ==
    IF pre_mean.nan \/ crisis_mean.nan THEN { Annotation("nan", 0) }
    ELSE LET n == (crisis_mean.num * pre_mean.den
                     - pre_mean.num * crisis_mean.den) * 100
             d == pre_mean.num * crisis_mean.den
         IN  IF d = 0
               THEN IF n = 0 THEN { Annotation("nan", 0) }
                    ELSE { Annotation("inf", IF n > 0 THEN 1 ELSE -1) }
             ELSE { Annotation("number", r) :
                      r \in IF d > 0 THEN RoundDiv(n * 10, d)
                            ELSE RoundDiv(0 - n * 10, 0 - d) }

\* plot_pre_vs_crisis_comparison: the means of the rows labelled pre and
\* crisis, and the change between them annotated on the bar chart.
plot_pre_vs_crisis_comparison(pre_series, crisis_series) ==
    { Returned(a) :
        a \in pct_change_annotation(mean(pre_series), mean(crisis_series)) }

\* plot_individual_crisis, one panel: the change is annotated when there are
\* rows before the anchor and rows from it on, the number of rows otherwise.
plot_individual_crisis(pre_series, crisis_series) ==
    IF Len(pre_series) > 0 /\ Len(crisis_series) > 0
      THEN { Returned(a) :
               a \in pct_change_annotation(mean(pre_series),
                                           mean(crisis_series)) }
    ELSE { Returned(Annotation("points",
                               Len(pre_series) + Len(crisis_series))) }

\* ------------------------------------------------------------------ inputs

\* Anchor strings: month ends, a leap day, a year end, a configured anchor
\* (2013-03-16), and two strings that name no calendar date.
Anchors ==
    { <<2012, 2, 28>>, <<2012, 2, 29>>, <<2012, 3, 1>>, <<2012, 12, 31>>,
      <<2013, 1, 1>>, <<2013, 3, 1>>, <<2013, 3, 16>>,
      <<2013, 2, 29>>, <<2013, 13, 1>> }

ValidAnchors == {a \in Anchors : IsCalendarDate(a)}

\* The anchors whose windows tables are cut to and labelled by.
TableAnchors == { <<2012, 3, 1>>, <<2013, 1, 1>>, <<2013, 3, 16>> }

Offsets == (0 - NegDays)..MaxDays

NatOffsets == 0..MaxDays

\* The metric value of the row of day n: 1, 2 or missing.
ValueOn(n) == IF n % 3 = 0 THEN NaN ELSE Num(n % 3)

\* A table with one row per day for n days from ordinal first, the gap-th row
\* left out when gap > 0, its date column held as datetime64 or as strings.
MakeTable(first, n, gap, dtype) ==
    LET days == SelectSeq([i \in 1..n |-> first + i - 1],
                          LAMBDA d : gap = 0 \/ d # first + gap - 1)
    IN  [dtype   |-> dtype,
         columns |-> <<"date", "x">>,
         rows    |-> [i \in DOMAIN days |->
                        [date |-> IF dtype = "datetime64" THEN days[i]
                                  ELSE FromOrdinal(days[i]),
                         x    |-> ValueOn(days[i])]]]

\* Tables around anchor a: starting up to MaxDays + 1 days before it.
TablesAround(a) ==
    { MakeTable(ToOrdinal(a) - lead, n, gap, dt) :
        lead \in 0..(MaxDays + 1), n \in 0..(2 * MaxDays + 2),
        gap \in {0, 2}, dt \in {"datetime64", "object"} }

Values == {Num(n) : n \in (0 - MaxVal)..MaxVal} \cup {NaN}

Shares == {Num(n) : n \in (0..MaxMilli) \cup ((1000 - MaxMilli)..1000)}

MetricNames == {"a", "b"}

\* A metric table: a date column and one value column, a row per date held.
MetricTables ==
    { [column |-> c, dates |-> S] :
        c \in {"x", "y"}, S \in SUBSET (1..MaxMergeDays) }

\* Every mapping from some metric names to metric tables (the empty one too).
MetricDicts ==
    UNION { [N -> MetricTables] : N \in SUBSET MetricNames }

\* Entries of a series, in units of 10^-5: missing, 0, and values small
\* enough that rounding to 4 decimals changes them.
SeriesValues == { NaN, Num(0), Num(4), Num(8), Num(15) }

\* 50, 55, 60 and 80, 85, 90 in units of 10^-5.
ExamplePre == << Num(5000000), Num(5500000), Num(6000000) >>

ExampleCrisis == << Num(8000000), Num(8500000), Num(9000000) >>

SmallSeries == UNION { [1..n -> SeriesValues] : n \in 0..MaxSeriesLen }

SeriesSet == SmallSeries \cup { ExamplePre, ExampleCrisis }

\* The (pre, crisis) pairs compared: every pair of small series, and the
\* documented example either way round.
SeriesPairs ==
    (SmallSeries \X SmallSeries)
      \cup { <<ExamplePre, ExampleCrisis>>, <<ExampleCrisis, ExamplePre>> }

\* Heights at the start and at the end of each era 0..MaxEra.
Heights ==
    { e * HalvingInterval + d : e \in 0..MaxEra, d \in 0..2 }
      \cup { (e + 1) * HalvingInterval - d : e \in 0..MaxEra, d \in 1..2 }

\* Fees and subsidies in BTC given to compute_fee_to_subsidy.
FeeAmounts == { Frac(0, 1), Frac(1, 1), Frac(3, 1), Frac(1, 8), NaN }

SubsidyAmounts == { Frac(0, 1), Frac(50, 1), Frac(25, 4), Frac(25, 8), NaN }

\* The hardcoded halving dates, and the days on which the estimated height
\* reaches a multiple of the halving interval.
HalvingDates ==
    { <<2012, 11, 28>>, <<2016, 7, 9>>, <<2020, 5, 11>>, <<2024, 4, 19>> }

EstimatedHalvingDays ==
    { GenesisOrdinal + ((k * HalvingInterval + BlocksPerDay - 1) \div BlocksPerDay) :
        k \in 1..5 }

\* Dates from the genesis date on, up to MaxDays from it and from each
\* halving by either mode.
SubsidyDates ==
    { FromOrdinal(GenesisOrdinal + k) : k \in 0..MaxDays }
      \cup { FromOrdinal(o + k) :
               o \in {ToOrdinal(d) : d \in HalvingDates} \cup EstimatedHalvingDays,
               k \in (0 - MaxDays)..MaxDays }

\* A one-row table of fees per block, with a height beside the date.
FeeTable(date_str, height, fees, with_height) ==
    [dtype   |-> "datetime64",
     columns |-> IF with_height THEN <<"date", "height", "fees_per_block_btc">>
                 ELSE <<"date", "fees_per_block_btc">>,
     rows    |-> << [date |-> ToOrdinal(date_str),
                     height |-> IF with_height THEN height ELSE -1,
                     fees_per_block_btc |-> fees] >>]

\* The configured events: cyprus_2013 with its anchor, and two more.
EventEntries ==
    { [name |-> "cyprus_2013", anchor |-> <<2013, 3, 16>>],
      [name |-> "venezuela_2017", anchor |-> <<2017, 8, 1>>],
      [name |-> "covid_cpi_peak_2022", anchor |-> <<2022, 6, 1>>] }

\* config dictionaries: the events in every order, none or some left out.
Configs ==
    { [events  |-> ev,
       windows |-> [days_before |-> MaxDays, days_after |-> MaxDays]] :
        ev \in { s \in UNION { [1..n -> EventEntries] : n \in 0..3 } :
                   \A i, j \in DOMAIN s : i # j => s[i] # s[j] } }

\* data/processed with the CSV of some of the events in it.
ProcessedDirs ==
    { [files |-> { EventCsv(e.name) : e \in S }] : S \in SUBSET EventEntries }

\* The merged table handed to build_event_dataset: a row for every day of the
\* widest window of the anchor, or no row at all.
MergedAround(anchor) ==
    { MakeTable(ToOrdinal(anchor) - MaxDays, 2 * MaxDays + 1, 0, "datetime64"),
      EmptyDataFrame }

\* The anchors the stages are run in a row for: a date and a string that
\* names none.
RunAnchors == { <<2013, 1, 1>>, <<2013, 2, 29>> }

\* config/settings.yaml: absent, not YAML, empty, or a mapping with some of
\* the sections.
SettingsFiles ==
    { [state |-> st, keys |-> {}] : st \in {"absent", "malformed", "empty"} }
      \cup { [state |-> "mapping", keys |-> K] :
               K \in SUBSET {"data", "events", "windows", "plots"} }

\* --days-before / --days-after: not given, or 0..MaxDays.
Overrides == { NotGiven } \cup { Given(v) : v \in NatOffsets }

\* The configuration the figure script loads: three events, one of them with
\* an anchor that is no date, and window sizes.
FigureConfigs ==
    { [events  |-> << [name |-> "cyprus_2013", anchor |-> <<2013, 3, 16>>],
                      [name |-> "venezuela_2017", anchor |-> <<2017, 2, 29>>],
                      [name |-> "covid_cpi_peak_2022",
                       anchor |-> <<2022, 6, 1>>] >>,
       windows |-> [days_before |-> b, days_after |-> c]] :
        b \in {1, MaxDays}, c \in {MaxDays} }

\* --metrics: all, one group, groups out of order, a group twice.
MetricRequests ==
    { <<"all">>, <<"fees">>, <<"activity", "fees">>,
      <<"dormancy", "dormancy">>, <<"dormancy", "activity">>,
      <<"activity", "all">> }

\* data/raw with some of the input files in it.
RawDirs ==
    SUBSET { "blockchain_com_fees_per_block_btc", "blockchain_com_fees_btc_day",
             "blockchain_com_blocks_per_day", "blockchain_com_bdd",
             "blockchain_com_tx_per_day" }

\* What each computation does when it is called.
Runs ==
    [fee_to_subsidy : {"path", "raises"}, fee_rate : {"path", "None"},
     dormancy : {"path", "raises"}, activity : {"path", "raises"}]

\* The metric columns plotted, before the anchor and from it on.
PlotSeries ==
    { <<>>, <<NaN>>, <<Num(0)>>, <<Num(4)>>, <<Num(15)>>, <<Num(4), Num(15)>>,
      <<NaN, Num(8)>>, <<Num(0), Num(0)>> }

\* ----------------------------------------------------------------- actions

Init ==
    /\ op = "idle"
    /\ args = <<>>
    /\ caller_df = "none"
    /\ ret = Returned("none")

BuildEventWindow ==
    /\ op = "idle"
    /\ \E a \in Anchors, b \in Offsets, c \in Offsets :
         /\ op' = "build_event_window"
         /\ args' = [anchor_date |-> a, days_before |-> b, days_after |-> c]
         /\ caller_df' = "none"
         /\ ret' = build_event_window(a, b, c)

\* label_period on the Timestamp of a day near the anchor.
LabelPeriod ==
    /\ op = "idle"
    /\ \E a \in Anchors, v \in ValidAnchors,
          k \in (0 - (MaxDays + 1))..(MaxDays + 1) :
         /\ op' = "label_period"
         /\ args' = [date |-> ToOrdinal(v) + k, anchor_date |-> a]
         /\ caller_df' = "none"
         /\ ret' = label_period(ToOrdinal(v) + k, a)

\* A caller slices a table by one range of an event window (pre, crisis) or
\* by the whole window [pre.start, crisis.end].
SliceDataframeByWindow ==
    /\ op = "idle"
    /\ \E a \in TableAnchors, b \in NatOffsets, c \in NatOffsets,
          part \in {"pre", "crisis", "window"} :
         LET w  == build_event_window(a, b, c).value
             lo == IF part = "crisis" THEN w.crisis[1] ELSE w.pre[1]
             hi == IF part = "pre" THEN w.pre[2] ELSE w.crisis[2]
         IN  \E df \in TablesAround(a) :
               /\ op' = "slice_dataframe_by_window"
               /\ args' = [df |-> df, start_date |-> lo, end_date |-> hi]
               /\ caller_df' = slice_dataframe_by_window_caller(df, lo, hi)
               /\ ret' = slice_dataframe_by_window(df, lo, hi)

AddPeriodLabels ==
    /\ op = "idle"
    /\ \E a \in Anchors, v \in TableAnchors :
         \E df \in TablesAround(v) :
           /\ op' = "add_period_labels"
           /\ args' = [df |-> df, anchor_date |-> a]
           /\ caller_df' = add_period_labels_caller(df, a)
           /\ ret' = add_period_labels(df, a)

PercentChange ==
    /\ op = "idle"
    /\ \E n \in Values, o \in Values :
         /\ op' = "percent_change"
         /\ args' = [value_new |-> n, value_old |-> o]
         /\ caller_df' = "none"
         /\ ret' \in percent_change(n, o)

PpChange ==
    /\ op = "idle"
    /\ \E n \in Shares, o \in Shares :
         /\ op' = "pp_change"
         /\ args' = [share_new |-> n, share_old |-> o]
         /\ caller_df' = "none"
         /\ ret' \in pp_change(n, o)

MergeMetricsOnDate ==
    /\ op = "idle"
    /\ \E md \in MetricDicts :
         /\ op' = "merge_metrics_on_date"
         /\ args' = [metrics_dict |-> md]
         /\ caller_df' = "none"
         /\ ret' = merge_metrics_on_date(md)

SummaryStats ==
    /\ op = "idle"
    /\ \E s \in SeriesSet :
         /\ op' = "summary_stats"
         /\ args' = [series |-> s]
         /\ caller_df' = "none"
         /\ ret' = summary_stats(s)

ComparePeriods ==
    /\ op = "idle"
    /\ \E pair \in SeriesPairs :
         /\ op' = "compare_periods"
         /\ args' = [pre_series |-> pair[1], crisis_series |-> pair[2],
                     metric_name |-> "x"]
         /\ caller_df' = "none"
         /\ ret' \in compare_periods(pair[1], pair[2], "x")

BlockSubsidy ==
    /\ op = "idle"
    /\ \E h \in Heights :
         /\ op' = "block_subsidy"
         /\ args' = [height |-> h]
         /\ caller_df' = "none"
         /\ ret' = block_subsidy(h)

ComputeFeeToSubsidy ==
    /\ op = "idle"
    /\ \E f \in FeeAmounts, s \in SubsidyAmounts :
         /\ op' = "compute_fee_to_subsidy"
         /\ args' = [fees_btc |-> f, subsidy_btc |-> s]
         /\ caller_df' = "none"
         /\ ret' = compute_fee_to_subsidy(f, s)

GetSubsidyOnDate ==
    /\ op = "idle"
    /\ \E d \in SubsidyDates :
         /\ op' = "get_subsidy_on_date"
         /\ args' = [date_str |-> d]
         /\ caller_df' = "none"
         /\ ret' = get_subsidy_on_date(d)

ComputeFeeToSubsidyRatio ==
    /\ op = "idle"
    /\ \E d \in SubsidyDates, f \in {Frac(0, 1), Frac(1, 1)},
          with_height \in BOOLEAN, hc \in {"None", "height"} :
         LET df == FeeTable(d, 420000, f, with_height) IN
           /\ op' = "compute_fee_to_subsidy_ratio"
           /\ args' = [df |-> df, height_column |-> hc]
           /\ caller_df' = "none"
           /\ ret' = compute_fee_to_subsidy_ratio(df, hc)

BuildAllEventDatasets ==
    /\ op = "idle"
    /\ \E config \in Configs, processed_dir \in ProcessedDirs :
         /\ op' = "build_all_event_datasets"
         /\ args' = [config |-> config, processed_dir |-> processed_dir]
         /\ caller_df' = "none"
         /\ ret' = build_all_event_datasets(config, processed_dir)

ComputeAllEventSummaries ==
    /\ op = "idle"
    /\ \E config \in Configs, processed_dir \in ProcessedDirs :
         /\ op' = "compute_all_event_summaries"
         /\ args' = [config |-> config, processed_dir |-> processed_dir]
         /\ caller_df' = "none"
         /\ ret' = compute_all_event_summaries(config, processed_dir)

BuildEventDataset ==
    /\ op = "idle"
    /\ \E e \in EventEntries, b \in NatOffsets, c \in NatOffsets :
         \E merged \in MergedAround(e.anchor) :
           /\ op' = "build_event_dataset"
           /\ args' = [event_name |-> e.name, anchor_date |-> e.anchor,
                       days_before |-> b, days_after |-> c,
                       merged_metrics |-> merged, output_dir |-> "processed"]
           /\ caller_df' = merged
           /\ ret' = build_event_dataset(e.name, e.anchor, b, c, merged,
                                         "processed")

SliceAndLabel ==
    /\ op = "idle"
    /\ \E a \in RunAnchors, b \in {0, MaxDays}, c \in {0, MaxDays} :
         \E df \in TablesAround(<<2013, 1, 1>>) :
           /\ op' = "slice_and_label"
           /\ args' = [df |-> df, anchor_date |-> a, days_before |-> b,
                       days_after |-> c]
           /\ caller_df' =
                IF build_event_window(a, b, c).raised # "none" THEN df
                ELSE slice_dataframe_by_window_caller(
                       df, build_event_window(a, b, c).value.pre[1],
                       build_event_window(a, b, c).value.crisis[2])
           /\ ret' = slice_and_label(df, a, b, c)

MergeSliceLabel ==
    /\ op = "idle"
    /\ \E md \in MetricDicts, a \in RunAnchors :
         /\ op' = "merge_slice_label"
         /\ args' = [metrics_dict |-> md, anchor_date |-> a,
                     days_before |-> MaxDays, days_after |-> MaxDays]
         /\ caller_df' = "none"
         /\ ret' = merge_slice_label(md, a, MaxDays, MaxDays)

\* The caller runs the same stages again on the same inputs, as the first run
\* left them.
SecondRun ==
    /\ op \in {"slice_and_label", "merge_slice_label"}
    /\ op' = "second_run"
    /\ args' = [of |-> op, inputs |-> args, first |-> ret]
    /\ caller_df' = caller_df
    /\ ret' = IF op = "slice_and_label"
                THEN slice_and_label(caller_df, args.anchor_date,
                                     args.days_before, args.days_after)
              ELSE merge_slice_label(args.metrics_dict, args.anchor_date,
                                     args.days_before, args.days_after)

ImportConfig ==
    /\ op = "idle"
    /\ \E settings \in SettingsFiles :
         /\ op' = "import_config"
         /\ args' = [settings |-> settings]
         /\ caller_df' = "none"
         /\ ret' = import_config(settings)

MakeFigures ==
    /\ op = "idle"
    /\ \E b \in Overrides, c \in Overrides, config \in FigureConfigs,
          event \in {"all", "cyprus_2013", "covid_cpi_peak_2022", "unknown"},
          st \in {"absent", "mapping"} :
         LET cli == [event |-> event, days_before |-> b, days_after |-> c]
             settings == [state |-> st,
                          keys |-> {"data", "events", "windows"}]
         IN  /\ op' = "make_figures"
             /\ args' = [cli |-> cli, settings |-> settings,
                         config |-> config]
             /\ caller_df' = "none"
             /\ ret' = make_figures(cli, settings, config)

ComputeMetrics ==
    /\ op = "idle"
    /\ \E metrics \in MetricRequests, raw_dir \in RawDirs, ran \in Runs,
          st \in {"absent", "mapping"} :
         LET cli == [metrics |-> metrics]
             settings == [state |-> st,
                          keys |-> {"data", "events", "windows"}]
         IN  /\ st = "absent" => (raw_dir = {} /\ ran.fee_rate = "path")
             /\ op' = "compute_metrics"
             /\ args' = [cli |-> cli, settings |-> settings,
                         raw_dir |-> raw_dir, ran |-> ran]
             /\ caller_df' = "none"
             /\ ret' = compute_metrics(cli, settings, raw_dir, ran)

PlotPreVsCrisisComparison ==
    /\ op = "idle"
    /\ \E pre \in PlotSeries, crisis \in PlotSeries :
         /\ op' = "plot_pre_vs_crisis_comparison"
         /\ args' = [pre_series |-> pre, crisis_series |-> crisis]
         /\ caller_df' = "none"
         /\ ret' \in plot_pre_vs_crisis_comparison(pre, crisis)

PlotIndividualCrisis ==
    /\ op = "idle"
    /\ \E pre \in PlotSeries, crisis \in PlotSeries :
         /\ op' = "plot_individual_crisis"
         /\ args' = [pre_series |-> pre, crisis_series |-> crisis]
         /\ caller_df' = "none"
         /\ ret' \in plot_individual_crisis(pre, crisis)

GetBlockSubsidy ==
    /\ op = "idle"
    /\ \E h \in Heights :
         /\ op' = "get_block_subsidy"
         /\ args' = [height |-> h]
         /\ caller_df' = "none"
         /\ ret' = get_block_subsidy(h)

Return ==
    /\ op # "idle"
    /\ op' = "idle"
    /\ args' = <<>>
    /\ caller_df' = "none"
    /\ ret' = Returned("none")

Next ==
    \/ BuildEventWindow
    \/ LabelPeriod
    \/ SliceDataframeByWindow
    \/ AddPeriodLabels
    \/ PercentChange
    \/ PpChange
    \/ MergeMetricsOnDate
    \/ SummaryStats
    \/ ComparePeriods
    \/ BlockSubsidy
    \/ ComputeFeeToSubsidy
    \/ GetSubsidyOnDate
    \/ ComputeFeeToSubsidyRatio
    \/ BuildAllEventDatasets
    \/ ComputeAllEventSummaries
    \/ BuildEventDataset
    \/ SliceAndLabel
    \/ MergeSliceLabel
    \/ SecondRun
    \/ ImportConfig
    \/ MakeFigures
    \/ ComputeMetrics
    \/ PlotPreVsCrisisComparison
    \/ PlotIndividualCrisis
    \/ GetBlockSubsidy
    \/ Return

Spec == Init /\ [][Next]_vars

\* ------------------------------------------------- the calendar, by itself

\* The calendar day after / before a date, by month lengths alone (no
\* ordinals): what "anchor + 1 day" and "anchor - 1 day" mean.
NextDay(s) ==
    IF s[3] < DaysInMonth(s[1], s[2]) THEN <<s[1], s[2], s[3] + 1>>
    ELSE IF s[2] < 12 THEN <<s[1], s[2] + 1, 1>>
    ELSE <<s[1] + 1, 1, 1>>

PrevDay(s) ==
    IF s[3] > 1 THEN <<s[1], s[2], s[3] - 1>>
    ELSE IF s[2] > 1 THEN <<s[1], s[2] - 1, DaysInMonth(s[1], s[2] - 1)>>
    ELSE <<s[1] - 1, 12, 31>>

RECURSIVE DaysAhead(_, _)
DaysAhead(s, k) == IF k = 0 THEN s ELSE DaysAhead(NextDay(s), k - 1)

RECURSIVE DaysBack(_, _)
DaysBack(s, k) == IF k = 0 THEN s ELSE DaysBack(PrevDay(s), k - 1)

\* s is on or before t, as ISO date strings compare.
DateLE(s, t) ==
    \/ s[1] < t[1]
    \/ s[1] = t[1] /\ s[2] < t[2]
    \/ s[1] = t[1] /\ s[2] = t[2] /\ s[3] <= t[3]

\* Every calendar date of the years the anchors and their windows lie in.
CalendarDays ==
    { s \in (2011..2014) \X (1..12) \X (1..31) : IsCalendarDate(s) }

\* The dates of an inclusive range (start, end).
DateRange(range) ==
    { s \in CalendarDays : DateLE(range[1], s) /\ DateLE(s, range[2]) }

ValidWindowCall ==
    /\ op = "build_event_window"
    /\ IsCalendarDate(args.anchor_date)
    /\ args.days_before >= 0
    /\ args.days_after >= 0

\* ------------------------------------------------------------------ claims

\* C1: for a parsable anchor and non-negative offsets, build_event_window
\* returns pre = (anchor - days_before, anchor - 1 day) and
\* crisis = (anchor, anchor + days_after) as calendar dates; pre.end is the
\* day before crisis.start.
C1_WindowBounds ==
    ValidWindowCall =>
      /\ ret.raised = "none"
      /\ ret.value.pre[1] = DaysBack(args.anchor_date, args.days_before)
      /\ ret.value.pre[2] = PrevDay(args.anchor_date)
      /\ ret.value.crisis[1] = args.anchor_date
      /\ ret.value.crisis[2] = DaysAhead(args.anchor_date, args.days_after)
      /\ NextDay(ret.value.pre[2]) = ret.value.crisis[1]

\* A window across the leap day: 3 days before and after 2012-03-01.
C1_Witness ==
    /\ op = "build_event_window"
    /\ args = [anchor_date |-> <<2012, 3, 1>>, days_before |-> 3,
               days_after |-> 3]
    /\ ret.raised = "none"
    /\ ret.value.pre = << <<2012, 2, 27>>, <<2012, 2, 29>> >>
    /\ ret.value.crisis = << <<2012, 3, 1>>, <<2012, 3, 4>> >>

\* C2: the pre and crisis ranges share no date and the anchor is in the
\* crisis range; label_period (alone, and per row in add_period_labels) gives
\* "pre" to every date of the pre range of any window of the anchor and
\* "crisis" to every date of its crisis range.
InRange(s, range) == DateLE(range[1], s) /\ DateLE(s, range[2])

\* The calendar days up to MaxDays + 1 days from a date, either side.
DaysNear(a) ==
    { DaysBack(a, k) : k \in 0..(MaxDays + 1) }
      \cup { DaysAhead(a, k) : k \in 0..(MaxDays + 1) }

LabelAgrees(date, anchor_date, label) ==
    \A s \in DaysNear(anchor_date) :
      ToOrdinal(s) = date =>
        \A b \in NatOffsets, c \in NatOffsets :
          LET w == build_event_window(anchor_date, b, c).value IN
            /\ InRange(s, w.pre) => label = "pre"
            /\ InRange(s, w.crisis) => label = "crisis"

C2_RangesAndLabels ==
    /\ ValidWindowCall =>
         /\ DateRange(ret.value.pre) \cap DateRange(ret.value.crisis) = {}
         /\ args.anchor_date \in DateRange(ret.value.crisis)
    /\ (op = "label_period" /\ IsCalendarDate(args.anchor_date)) =>
         /\ ret.raised = "none"
         /\ LabelAgrees(args.date, args.anchor_date, ret.value)
    /\ (op = "add_period_labels" /\ IsCalendarDate(args.anchor_date)) =>
         /\ ret.raised = "none"
         /\ Len(ret.value.rows) = Len(args.df.rows)
         /\ \A i \in DOMAIN ret.value.rows :
              LabelAgrees(ret.value.rows[i].date, args.anchor_date,
                          ret.value.rows[i].period)

\* The anchor day itself is labelled "crisis".
C2_Witness ==
    /\ op = "label_period"
    /\ args.anchor_date = <<2013, 3, 16>>
    /\ args.date = ToOrdinal(<<2013, 3, 16>>)
    /\ ret = Returned("crisis")

\* C3 (as claimed): a negative days_before or days_after makes
\* build_event_window fail with InvalidWindowError.
C3_NegativeOffsetRejected ==
    (/\ op = "build_event_window"
     /\ IsCalendarDate(args.anchor_date)
     /\ (args.days_before < 0 \/ args.days_after < 0))
      => ret.raised = "InvalidWindowError"

\* C4: slicing by [pre.start, crisis.end] of a window a table that has
\* exactly one row for each day of the window gives
\* days_before + days_after + 1 rows.
RowsOn(df, s) ==
    { i \in DOMAIN df.rows :
        df.rows[i].date = IF df.dtype = "datetime64" THEN ToOrdinal(s) ELSE s }

WindowDays(a, b, c) ==
    { DaysBack(a, k) : k \in 1..b } \cup { DaysAhead(a, k) : k \in 0..c }

C4_FullCoverageRowCount ==
    op = "slice_dataframe_by_window" =>
      \A a \in ValidAnchors, b \in NatOffsets, c \in NatOffsets :
        (/\ args.start_date = DaysBack(a, b)
         /\ args.end_date = DaysAhead(a, c)
         /\ \A s \in WindowDays(a, b, c) : Cardinality(RowsOn(args.df, s)) = 1)
          => /\ ret.raised = "none"
             /\ Len(ret.value.rows) = b + c + 1

\* A table with rows on both sides of the window, cut to its 3 + 2 + 1 days.
C4_Witness ==
    /\ op = "slice_dataframe_by_window"
    /\ args.start_date = <<2012, 2, 27>>
    /\ args.end_date = <<2012, 3, 3>>
    /\ Len(args.df.rows) = 8
    /\ \A s \in WindowDays(<<2012, 3, 1>>, 3, 2) :
         Cardinality(RowsOn(args.df, s)) = 1
    /\ Len(ret.value.rows) = 6

\* The dates on which some table of a metric map holds a value.
DatesOf(md) == UNION { md[n].dates : n \in DOMAIN md }

RowDates(df) == { df.rows[i].date : i \in DOMAIN df.rows }

MergeCall == op = "merge_metrics_on_date"

\* C5 (as claimed): the merged table's dates are the union of the input
\* dates; two inputs on disjoint dates give the sum of their lengths in rows.
C5_OuterJoin ==
    MergeCall =>
      /\ ret.raised = "none"
      /\ RowDates(ret.value) = DatesOf(args.metrics_dict)
      /\ \A m, n \in DOMAIN args.metrics_dict :
           (/\ m # n
            /\ args.metrics_dict[m].dates \cap args.metrics_dict[n].dates = {})
             => Len(ret.value.rows)
                  = Cardinality(args.metrics_dict[m].dates)
                      + Cardinality(args.metrics_dict[n].dates)

\* C6 (as claimed): for a date some input holds and metric n does not, the
\* merged table's row of that date holds the missing marker in n's column.
C6_MissingMarker ==
    MergeCall =>
      \A n \in DOMAIN args.metrics_dict :
        \A d \in DatesOf(args.metrics_dict) \ args.metrics_dict[n].dates :
          \E i \in DOMAIN ret.value.rows :
            /\ ret.value.rows[i].date = d
            /\ ret.value.rows[i][args.metrics_dict[n].column] = NaN

\* C7 (as claimed): merging an empty map fails with EmptyInputError.
C7_EmptyMapRaises ==
    (MergeCall /\ DOMAIN args.metrics_dict = {})
      => ret.raised = "EmptyInputError"

\* C7 (amended): merging an empty map raises nothing and returns an empty
\* table (no columns, no rows).
C7_EmptyMapReturnsEmptyTable ==
    (MergeCall /\ DOMAIN args.metrics_dict = {})
      => /\ ret.raised = "none"
         /\ ret.value.columns = <<>>
         /\ ret.value.rows = <<>>

C7_Witness ==
    /\ MergeCall
    /\ DOMAIN args.metrics_dict = {}
    /\ ret.raised = "none"
    /\ Len(ret.value.rows) = 0

\* C8 (as claimed): two inputs with the same column name are rejected with
\* DuplicateMetricError.
C8_DuplicateRejected ==
    (/\ MergeCall
     /\ \E m, n \in DOMAIN args.metrics_dict :
          m # n /\ args.metrics_dict[m].column = args.metrics_dict[n].column)
      => ret.raised = "DuplicateMetricError"

\* C9: percent_change(new, old) is (new - old) / old * 100 to the nearest
\* hundredth for old # 0, and NaN, returned not raised, for old = 0.
C9_PercentChange ==
    (op = "percent_change" /\ ~args.value_new.nan /\ ~args.value_old.nan) =>
      /\ ret.raised = "none"
      /\ args.value_old.v = 0 => ret.value = NaN
      /\ args.value_old.v # 0 =>
           /\ ~ret.value.nan
           /\ 2 * Abs(ret.value.v * args.value_old.v
                        - (args.value_new.v - args.value_old.v) * 10000)
                <= Abs(args.value_old.v)

\* percent_change(30, 22) = 36.36, and percent_change(5, 0) is NaN.
C9_Witness ==
    /\ op = "percent_change"
    /\ \/ /\ args = [value_new |-> Num(30), value_old |-> Num(22)]
          /\ ret = Returned(Num(3636))
       \/ /\ args = [value_new |-> Num(5), value_old |-> Num(0)]
          /\ ret = Returned(NaN)

\* C10 (as claimed): pp_change returns new - old itself (shares in
\* thousandths, the result in hundredths).
C10_PlainDifference ==
    op = "pp_change" =>
      /\ ret.raised = "none"
      /\ ret.value.v * 10 = args.share_new.v - args.share_old.v

\* C10 (amended): pp_change returns new - old rounded to 2 decimals: a
\* whole number of hundredths within half a hundredth of the difference.
C10_RoundedDifference ==
    op = "pp_change" =>
      /\ ret.raised = "none"
      /\ ~ret.value.nan
      /\ 2 * Abs(ret.value.v * 10 - (args.share_new.v - args.share_old.v))
           <= 10

\* pp_change(0.004, 0.001) = 0.0, not 0.003.
C10_Witness ==
    /\ op = "pp_change"
    /\ args = [share_new |-> Num(4), share_old |-> Num(1)]
    /\ ret = Returned(Num(0))


\* ------------------------------------------------------ summary statistics

CompareCall == op = "compare_periods"

\* The entries of a series that hold a value.
Present(series) == { i \in DOMAIN series : ~series[i].nan }

\* The sum of the values a series holds.
RECURSIVE Total(_, _)
Total(series, I) ==
    IF I = {} THEN 0
    ELSE LET i == CHOOSE j \in I : TRUE
         IN  series[i].v + Total(series, I \ {i})

\* r hundredths of a percent is (new - old) / old * 100 to the nearest
\* hundredth, for the quotient new / old of two integers, old # 0.
IsPercentChange(r, new, old) ==
    LET g == Gcd(Abs(new), Abs(old))
        n == new \div g
        o == old \div g
    IN  2 * Abs(r * o - (n - o) * 10000) <= Abs(o)

\* percent_change applied to the means a record stores.
Recomputed(rec) ==
    IF rec.pre_mean.nan \/ rec.crisis_mean.nan
    THEN percent_change(rec.crisis_mean, rec.pre_mean)
    ELSE percent_change_of_means(Frac(rec.crisis_mean.v, 1),
                                 Frac(rec.pre_mean.v, 1))

\* C11 (as claimed): percent_change recomputed from the pre_mean and
\* crisis_mean a record stores is the stored percent_change, to within one
\* hundredth.
C11_RoundTrip ==
    CompareCall =>
      \E r \in Recomputed(ret.value) :
        \/ r.value.nan /\ ret.value.percent_change.nan
        \/ /\ ~r.value.nan
           /\ ~ret.value.percent_change.nan
           /\ Abs(r.value.v - ret.value.percent_change.v) <= 1

\* C12: a side with no non-missing value has mean NaN, and then
\* percent_change is NaN; neither is 0.
C12_EmptySideIsNaN ==
    CompareCall =>
      /\ ret.raised = "none"
      /\ Present(args.pre_series) = {} => ret.value.pre_mean = NaN
      /\ Present(args.crisis_series) = {} => ret.value.crisis_mean = NaN
      /\ (Present(args.pre_series) = {} \/ Present(args.crisis_series) = {})
           => ret.value.percent_change = NaN

\* A pre series of one missing entry against a crisis series with a value.
C12_Witness ==
    /\ CompareCall
    /\ args.pre_series = << NaN >>
    /\ args.crisis_series = << Num(4) >>
    /\ ret.value.pre_mean = NaN
    /\ ret.value.crisis_mean = Num(0)
    /\ ret.value.percent_change = NaN

\* C13 (as claimed): the count reported beside a mean is the number of
\* non-missing values, those that entered the mean.
C13_CountIsNonMissing ==
    op = "summary_stats" =>
      ret.value.count = Cardinality(Present(args.series))

\* C14 (as claimed): pre_mean and crisis_mean are the arithmetic means
\* themselves (stored in units of 10^-4, values in units of 10^-5).
C14_ExactMeans ==
    CompareCall =>
      /\ Present(args.pre_series) # {} =>
           ret.value.pre_mean.v * 10 * Cardinality(Present(args.pre_series))
             = Total(args.pre_series, Present(args.pre_series))
      /\ Present(args.crisis_series) # {} =>
           ret.value.crisis_mean.v * 10
               * Cardinality(Present(args.crisis_series))
             = Total(args.crisis_series, Present(args.crisis_series))

\* m (units of 10^-4) is the mean of the values of a series (units of
\* 10^-5) to the nearest 10^-4.
IsRoundedMean(m, series) ==
    LET n == Cardinality(Present(series))
    IN  /\ ~m.nan
        /\ 2 * Abs(m.v * 10 * n - Total(series, Present(series))) <= 10 * n

\* C14 (amended): pre_mean and crisis_mean are the arithmetic means rounded
\* to 4 decimals; percent_change is the percent change between the unrounded
\* means, to 2 decimals; the documented example gives 55.0, 85.0, 54.55.
C14_RoundedMeans ==
    CompareCall =>
      /\ Present(args.pre_series) # {} =>
           IsRoundedMean(ret.value.pre_mean, args.pre_series)
      /\ Present(args.crisis_series) # {} =>
           IsRoundedMean(ret.value.crisis_mean, args.crisis_series)
      /\ (/\ Present(args.pre_series) # {}
          /\ Present(args.crisis_series) # {}
          /\ Total(args.pre_series, Present(args.pre_series)) # 0) =>
           /\ ~ret.value.percent_change.nan
           /\ IsPercentChange(
                ret.value.percent_change.v,
                Total(args.crisis_series, Present(args.crisis_series))
                  * Cardinality(Present(args.pre_series)),
                Total(args.pre_series, Present(args.pre_series))
                  * Cardinality(Present(args.crisis_series)))
      /\ (args.pre_series = ExamplePre /\ args.crisis_series = ExampleCrisis)
           => /\ ret.value.pre_mean = Num(550000)
              /\ ret.value.crisis_mean = Num(850000)
              /\ ret.value.percent_change = Num(5455)

\* The documented example.
C14_Witness ==
    /\ CompareCall
    /\ args.pre_series = ExamplePre
    /\ args.crisis_series = ExampleCrisis
    /\ ret.value.percent_change = Num(5455)


\* ------------------------------------------------------------------- C15

\* The fraction f is n / d.
FracIs(f, n, d) == ~f.nan /\ f.num * d = n * f.den

\* 50 halved once for every full halving interval below height h, as a
\* pair <<numerator, denominator>>.
RECURSIVE HalvedSubsidy(_)
HalvedSubsidy(h) ==
    IF h < HalvingInterval THEN <<InitialSubsidy, 1>>
    ELSE LET p == HalvedSubsidy(h - HalvingInterval) IN <<p[1], 2 * p[2]>>

\* C15: for every height >= 0 block_subsidy is 50 halved once per completed
\* 210,000-block era, so constant inside an era and halved at each multiple
\* of 210,000: 50 at 0, 25 at 210000, 12.5 at 420000, 6.25 at 630000 and
\* 3.125 at 840000.
C15_BlockSubsidy ==
    (op = "block_subsidy" /\ args.height >= 0) =>
      /\ ret.raised = "none"
      /\ FracIs(ret.value, HalvedSubsidy(args.height)[1],
                HalvedSubsidy(args.height)[2])
      /\ args.height = 0 => FracIs(ret.value, 50, 1)
      /\ args.height = 210000 => FracIs(ret.value, 25, 1)
      /\ args.height = 420000 => FracIs(ret.value, 25, 2)
      /\ args.height = 630000 => FracIs(ret.value, 25, 4)
      /\ args.height = 840000 => FracIs(ret.value, 25, 8)

C15_Witness ==
    /\ op = "block_subsidy"
    /\ args.height = 840000
    /\ FracIs(ret.value, 25, 8)

\* ------------------------------------------------------------------- C16

\* The subsidy from the estimated height of a date string.
ApproxSubsidy(date_str) ==
    block_subsidy(approx_height(ToOrdinal(date_str))).value

\* approx is k times hard.
FracTimes(approx, k, hard) ==
    ~approx.nan /\ ~hard.nan /\ approx.num * hard.den = k * hard.num * approx.den

\* The days after a hardcoded halving date on which the estimated height is
\* still below the halving height.
InLag(s) ==
    \/ DateLE(<<2012, 11, 28>>, s) /\ DateLE(s, <<2012, 12, 31>>)
    \/ DateLE(<<2016, 7, 9>>, s) /\ DateLE(s, <<2016, 12, 28>>)
    \/ DateLE(<<2020, 5, 11>>, s) /\ DateLE(s, <<2020, 12, 25>>)
    \/ DateLE(<<2024, 4, 19>>, s) /\ DateLE(s, <<2024, 12, 23>>)

\* The days from which the estimated height is 1,050,000 or more.
PastLastBoundary(s) == DateLE(<<2028, 12, 21>>, s)

SubsidyCall ==
    op = "get_subsidy_on_date" /\ DateLE(<<2009, 1, 3>>, args.date_str)

ApproxRatioCall ==
    /\ op = "compute_fee_to_subsidy_ratio"
    /\ \A i \in DOMAIN ret.value.columns : ret.value.columns[i] # "height"

\* C16 as claimed: on every date from 2009-01-03 on, the subsidy of the
\* estimated height equals the subsidy of the hardcoded halving dates.
C16_ModesEquivalent ==
    /\ SubsidyCall => FracTimes(ApproxSubsidy(args.date_str), 1, ret.value)
    /\ ApproxRatioCall =>
         \A i \in DOMAIN ret.value.rows :
           FracTimes(ret.value.rows[i].subsidy_btc, 1,
                     get_subsidy_on_date(FromOrdinal(ret.value.rows[i].date)).value)

\* How the two modes compare on a date.
ModesCompare(s, approx, hard) ==
    IF PastLastBoundary(s)
      THEN ~approx.nan /\ ~hard.nan /\
           2 * approx.num * hard.den <= hard.num * approx.den
    ELSE IF InLag(s) THEN FracTimes(approx, 2, hard)
    ELSE FracTimes(approx, 1, hard)

\* C16 amended: from 2009-01-03 to 2028-12-20 the two modes agree except on
\* the days 2012-11-28..2012-12-31, 2016-07-09..2016-12-28,
\* 2020-05-11..2020-12-25 and 2024-04-19..2024-12-23, on which the estimated
\* height gives twice the hardcoded subsidy; from 2028-12-21 on it gives at
\* most half of it.
C16_ModesAgreeOutsideLag ==
    /\ SubsidyCall =>
         ModesCompare(args.date_str, ApproxSubsidy(args.date_str), ret.value)
    /\ ApproxRatioCall =>
         \A i \in DOMAIN ret.value.rows :
           LET s == FromOrdinal(ret.value.rows[i].date) IN
             ModesCompare(s, ret.value.rows[i].subsidy_btc,
                          get_subsidy_on_date(s).value)

C16_Witness ==
    /\ op = "get_subsidy_on_date"
    /\ args.date_str = <<2012, 11, 28>>
    /\ FracIs(ret.value, 25, 1)
    /\ FracIs(ApproxSubsidy(args.date_str), 50, 1)

\* ------------------------------------------------------------------- C17

FeeCall ==
    /\ op = "compute_fee_to_subsidy"
    /\ ~args.fees_btc.nan /\ ~args.subsidy_btc.nan
    /\ args.fees_btc.num >= 0 /\ args.subsidy_btc.num >= 0

\* C17: for non-negative fees and subsidy compute_fee_to_subsidy returns a
\* ratio r with r * (fees + subsidy) = fees, and returns 0 without raising
\* when fees and subsidy are both 0.
C17_FeeShare ==
    FeeCall =>
      LET f == args.fees_btc
          s == args.subsidy_btc
      IN  /\ ret.raised = "none"
          /\ ~ret.value.nan
          /\ (f.num = 0 /\ s.num = 0) => ret.value.num = 0
          /\ ~(f.num = 0 /\ s.num = 0) =>
               ret.value.num * (f.num * s.den + s.num * f.den) * f.den
                 = f.num * (f.den * s.den) * ret.value.den

C17_Witness ==
    /\ FeeCall
    /\ args.fees_btc = Frac(3, 1)
    /\ args.subsidy_btc = Frac(25, 8)
    /\ FracIs(ret.value, 24, 49)


\* ------------------------------------------------------------------- C19

\* The configured events whose CSV is in the processed directory, in
\* configuration order.
EventsWithCsv ==
    SelectSeq(args.config.events,
              LAMBDA e : EventCsv(e.name) \in args.processed_dir.files)

\* C19 (as claimed): the combined summary holds the records of every
\* configured event that has a dataset, and of no other, event after event
\* in configuration order.
C19_CombinedInConfigOrder ==
    op = "compute_all_event_summaries" =>
      LET rows == ret.value.rows
          pos(n) == CHOOSE i \in DOMAIN EventsWithCsv :
                      EventsWithCsv[i].name = n
      IN  /\ ret.raised = "none"
          /\ \A i \in DOMAIN EventsWithCsv :
               \E j \in DOMAIN rows : rows[j].event = EventsWithCsv[i].name
          /\ \A j \in DOMAIN rows :
               \E i \in DOMAIN EventsWithCsv :
                 rows[j].event = EventsWithCsv[i].name
          /\ \A j, k \in DOMAIN rows :
               j < k => pos(rows[j].event) <= pos(rows[k].event)


\* ------------------------------------------------------------------- C20

SliceCall == op = "slice_dataframe_by_window"

\* The calendar days from s to end, both included, day after day.
RECURSIVE DaysThrough(_, _)
DaysThrough(s, end) ==
    IF ~DateLE(s, end) THEN {} ELSE {s} \cup DaysThrough(NextDay(s), end)

\* The date of a row of the table passed in, as the slice returns it.
AsDatetime(row) ==
    IF args.df.dtype = "datetime64" THEN row.date ELSE ToOrdinal(row.date)

\* The rows passed in whose date is one of the days from start_date to
\* end_date.
RowsInRange ==
    LET days == DaysThrough(args.start_date, args.end_date)
    IN  SelectSeq(args.df.rows,
                  LAMBDA row : \E s \in days : ToOrdinal(s) = AsDatetime(row))

\* C20: the rows returned are the rows passed in whose date is in
\* [start_date, end_date], each with its metric value as it was, a missing
\* value included; no row is left out for any other reason.
C20_MissingValuesKept ==
    SliceCall =>
      LET kept == RowsInRange
      IN  /\ ret.raised = "none"
          /\ Len(ret.value.rows) = Len(kept)
          /\ \A i \in DOMAIN kept :
               /\ ret.value.rows[i].date = AsDatetime(kept[i])
               /\ ret.value.rows[i].x = kept[i].x

\* A slice that leaves a row out and keeps a row with a missing value.
C20_Witness ==
    /\ SliceCall
    /\ Len(ret.value.rows) < Len(args.df.rows)
    /\ \E i \in DOMAIN ret.value.rows : ret.value.rows[i].x.nan


\* ------------------------------------------------------------------- C21

\* C21: with days_before = 0 build_event_window returns, without raising, the
\* pre range (anchor, anchor - 1 day), whose start is after its end; a table
\* sliced to such a range has no row.
C21_EmptyPreRange ==
    /\ (ValidWindowCall /\ args.days_before = 0) =>
         /\ ret.raised = "none"
         /\ ret.value.pre[1] = args.anchor_date
         /\ ret.value.pre[2] = PrevDay(args.anchor_date)
         /\ ~DateLE(ret.value.pre[1], ret.value.pre[2])
    /\ (SliceCall /\ args.end_date = PrevDay(args.start_date)) =>
         /\ ret.raised = "none"
         /\ ret.value.rows = <<>>

\* A table with rows on the anchor day and the day before it, sliced to the
\* pre range of a window of no days before 2013-01-01.
C21_Witness ==
    /\ SliceCall
    /\ args.start_date = <<2013, 1, 1>>
    /\ args.end_date = <<2012, 12, 31>>
    /\ args.start_date = build_event_window(<<2013, 1, 1>>, 0, 1).value.pre[1]
    /\ args.end_date = build_event_window(<<2013, 1, 1>>, 0, 1).value.pre[2]
    /\ Cardinality(RowsOn(args.df, <<2013, 1, 1>>)) = 1
    /\ Cardinality(RowsOn(args.df, <<2012, 12, 31>>)) = 1
    /\ ret.value.rows = <<>>


\* ------------------------------------------------------------------- C22

\* C22 (as claimed): build_event_dataset builds a dataset, one row for each
\* row of the merged table inside the window, each carrying days_from_anchor;
\* so a call on a table with rows in the window returns the path of the
\* dataset it saved, event_<name>.csv in the output directory.
C22_DatasetWithDaysFromAnchor ==
    (op = "build_event_dataset" /\ args.merged_metrics.rows # <<>>) =>
      /\ ret.raised = "none"
      /\ ret.value # None
      /\ ret.value = Path(args.output_dir, EventCsv(args.event_name))


\* ------------------------------------------------------------------- C23

BadAnchorCall ==
    op = "build_event_window" /\ ~IsCalendarDate(args.anchor_date)

\* C23 (as claimed): an anchor string that names no calendar date makes
\* build_event_window fail with InvalidDateError.
C23_InvalidDateError ==
    BadAnchorCall => ret.raised = "InvalidDateError"

\* C23 amended: an anchor string that names no calendar date makes
\* build_event_window fail with the ValueError of strptime, whatever the
\* offsets are, and no window is returned.
C23_ValueError ==
    BadAnchorCall => (ret.raised = "ValueError" /\ ret.value = "none")

C23_Witness ==
    /\ BadAnchorCall
    /\ args.anchor_date = <<2013, 2, 29>>
    /\ ret.raised = "ValueError"


\* ------------------------------------------------------------------- C25

ImportCall == op = "import_config"

\* The settings file can be loaded: it is a mapping with the three sections.
Loadable(settings) ==
    /\ settings.state = "mapping"
    /\ \A k \in {"data", "events", "windows"} : k \in settings.keys

\* C26 (as claimed): whenever the settings cannot be loaded, the import
\* succeeds with CONFIG = None.
C26_AnyFailureGivesNone ==
    (ImportCall /\ ~Loadable(args.settings)) =>
      (ret.raised = "none" /\ ret.value = ConfigNone)

\* C26 amended: CONFIG is loaded at import; only an absent settings file
\* gives CONFIG = None.  Malformed YAML, an empty file and a missing section
\* make the import raise (YAMLError, TypeError, ValueError).
C26_OnlyAbsentFileGivesNone ==
    ImportCall =>
      /\ Loadable(args.settings) =>
           (ret.raised = "none" /\ ret.value.kind = "dict"
              /\ ret.value.keys = args.settings.keys)
      /\ args.settings.state = "absent" =>
           (ret.raised = "none" /\ ret.value = ConfigNone)
      /\ args.settings.state = "malformed" => ret.raised = "YAMLError"
      /\ args.settings.state = "empty" => ret.raised = "TypeError"
      /\ (args.settings.state = "mapping" /\ ~Loadable(args.settings)) =>
           ret.raised = "ValueError"

\* Settings without the windows section: the import raises.
C26_Witness ==
    /\ ImportCall
    /\ args.settings = [state |-> "mapping", keys |-> {"data", "events"}]
    /\ ret.raised = "ValueError"


\* ------------------------------------------------------------------- C27

\* The figure script got as far as building windows.
FiguresCall == op = "make_figures" /\ ret.raised = "none"

\* The window sizes the claim has the script use: the override when one is
\* given, the configured value when none is.
ClaimedSize(override, configured) ==
    IF override.given THEN override.v ELSE configured

\* C27 (as claimed): every window is built days_before days back from its
\* anchor and days_after days on, with the override where one was given (0
\* included) and the configured value otherwise.
C27_OverrideUsed ==
    FiguresCall =>
      \A i \in DOMAIN ret.value.windows :
        LET w == ret.value.windows[i]
            anchor == w.crisis[1]
        IN  /\ w.pre[1] = DaysBack(anchor,
                            ClaimedSize(args.cli.days_before,
                                        args.config.windows.days_before))
            /\ w.crisis[2] = DaysAhead(anchor,
                               ClaimedSize(args.cli.days_after,
                                           args.config.windows.days_after))


\* ------------------------------------------------------------------- C28

MetricsCall == op = "compute_metrics" /\ ret.raised = "none"

\* The group was asked for, by name or by "all".
Requested(group) ==
    \E i \in DOMAIN args.cli.metrics :
      args.cli.metrics[i] = group \/ args.cli.metrics[i] = "all"

\* The input file a group cannot do without.
RequiredFile(group) ==
    IF group = "fees" THEN "blockchain_com_fees_per_block_btc"
    ELSE IF group = "dormancy" THEN "blockchain_com_bdd"
    ELSE "blockchain_com_tx_per_day"

\* A computation of the group raised.
GroupRaised(group) ==
    IF group = "fees" THEN args.ran.fee_to_subsidy = "raises"
    ELSE IF group = "dormancy" THEN args.ran.dormancy = "raises"
    ELSE args.ran.activity = "raises"

PlotCall ==
    /\ op \in {"plot_pre_vs_crisis_comparison", "plot_individual_crisis"}
    /\ ret.raised = "none"
    /\ ret.value.kind # "points"

\* C29 (as claimed): the change a plot annotates is percent_change of the
\* same two means: missing exactly when percent_change is NaN (so for a pre
\* mean of 0), never infinite, and otherwise the same number, the
\* annotation having one decimal where percent_change has two.
C29_SameAsPercentChange ==
    PlotCall =>
      LET pc == percent_change_of_means(mean(args.crisis_series),
                                        mean(args.pre_series))
      IN  /\ ret.value.kind # "inf"
          /\ ret.value.kind = "nan" <=> pc = {Returned(NaN)}
          /\ ret.value.kind = "number" =>
               \E r \in pc : Abs(10 * ret.value.v - r.value.v) <= 6


\* ------------------------------------------------------------------- C30

\* C30: for every height >= 0, get_block_subsidy of node_rpc returns the
\* subsidy that block_subsidy of fees_and_fee_to_subsidy returns.
C30_SameSubsidy ==
    (op = "get_block_subsidy" /\ args.height >= 0) =>
      /\ ret.raised = "none"
      /\ block_subsidy(args.height).raised = "none"
      /\ FracTimes(ret.value, 1, block_subsidy(args.height).value)

\* The first height of the sixth era, 1,050,000: both give 50 / 32.
C30_Witness ==
    /\ op = "get_block_subsidy"
    /\ args.height = 5 * 210000
    /\ FracIs(ret.value, 25, 16)
    /\ FracIs(block_subsidy(args.height).value, 25, 16)

====
